---- MODULE Spec2Model ----
(***************************************************************************)
(* discord-bridge: the Gateway session (gateway.py), the event router and  *)
(* HTTP forwarder (router.py), the route lookup (config.py) and the        *)
(* supervisor's start-up (main.py), as one state machine.                  *)
(*                                                                         *)
(* The program runs on one asyncio event loop.  A coroutine runs without   *)
(* interruption from one suspension point (an await on I/O or on a sleep)  *)
(* to the next, so every action below is one such stretch of the code.     *)
(* Durations are abstracted: a sleep or an I/O wait ends at some later     *)
(* step.  An optional Python value is None (the empty tuple) or <<v>>.     *)
(***************************************************************************)
EXTENDS Integers, Sequences, FiniteSets

\* ------------------------------------------------------------- bounds
\* Connections the model lets the connect loop open.
MaxConns == 2
\* Largest sequence number a dispatch frame carries ("s").
MaxSeq == 2
\* Dispatches handed to the router (events_received) before the model stops
\* accepting dispatches that reach the callback.
MaxEvents == 1
\* Largest http.retry_attempts a configuration sets.
MaxRetryAttempts == 3
\* Longest list of routes of the configurations the route lookup is applied to.
MaxRoutes == 2

\* ------------------------------------------------------------- values
None == <<>>
Some(x) == <<x>>

\* Python truthiness of an Optional[str]: None and "" are falsy.
Truthy(optstr) == optstr # None /\ optstr[1] # ""

\* Gateway opcodes.
OpDispatch == 0
OpHeartbeat == 1
OpIdentify == 2
OpResume == 6
OpReconnect == 7
OpInvalidSession == 9
OpHello == 10
OpHeartbeatAck == 11
\* An opcode _handle_event has no branch for.
OpUnknown == OpHeartbeatAck + 1

\* What the platform may send ----------------------------------------
ReadyPayloads ==
    { [session_id |-> None, resume_gateway_url |-> None],
      [session_id |-> Some(""), resume_gateway_url |-> None],
      [session_id |-> Some("s1"), resume_gateway_url |-> Some("wss://resume")] }
EmptyData == [session_id |-> None, resume_gateway_url |-> None]
OptSeqs == {None} \cup { Some(n) : n \in 0..MaxSeq }
EventTypes == {None, Some("READY"), Some("RESUMED"), Some("MESSAGE_CREATE")}
\* "d" of an INVALID SESSION frame: true, false, or absent/null.
InvalidSessionData == {Some(TRUE), Some(FALSE), None}
\* heartbeat_interval of HELLO, in milliseconds.
HelloIntervals == {41250}
\* hello_event["d"]["heartbeat_interval"] / 1000.0, kept exact as a fraction.
Seconds(ms) == [num |-> ms, den |-> 1000]

\* Configurations ----------------------------------------------------
\* HTTPConfig.retry_attempts, by default.
DefaultRetryAttempts == 3
OneRoute ==
    << [event_name |-> "MESSAGE_CREATE", endpoints |-> <<"e1">>, enabled |-> TRUE] >>
RouteLists ==
    { OneRoute,
      << [event_name |-> "MESSAGE_CREATE", endpoints |-> <<"e1", "e2">>, enabled |-> TRUE] >>,
      << [event_name |-> "MESSAGE_CREATE", endpoints |-> <<"e1">>, enabled |-> TRUE],
         [event_name |-> "MESSAGE_CREATE", endpoints |-> <<"e2">>, enabled |-> FALSE],
         [event_name |-> "READY", endpoints |-> <<"e2">>, enabled |-> TRUE] >>,
      \* "endpoints: List[HttpUrl]" accepts the empty list
      << [event_name |-> "MESSAGE_CREATE", endpoints |-> <<>>, enabled |-> TRUE] >> }

\* Every list of at most MaxRoutes routes over two event names, two endpoint
\* lists and both values of enabled.
RouteUniverse ==
    [event_name : {"MESSAGE_CREATE", "READY"},
     endpoints : {<<"e1">>, <<"e2">>},
     enabled : BOOLEAN]
AllRouteLists == UNION { [1..n -> RouteUniverse] : n \in 0..MaxRoutes }
\* The event names a lookup is made for (one of them has no route).
EventNames == {"MESSAGE_CREATE", "READY", "RESUMED"}

\* What an endpoint may answer to one POST: a status, or the request fails
\* (status 0: no response was read).
Outcomes ==
    { [kind |-> "status", status |-> st] : st \in {204, 399, 400, 500} }
    \cup { [kind |-> k, status |-> 0] : k \in {"ClientError", "TimeoutError", "Exception"} }

\* ------------------------------------------------------------- frames
NoFrame == [op |-> -1]

IdentifyPayload ==
    [op |-> OpIdentify, d |-> [token |-> "token", intents |-> "intents"]]

ResumePayload(sid, seq) ==
    [op |-> OpResume, d |-> [token |-> "token", session_id |-> sid, seq |-> seq]]

\* _heartbeat_loop's heartbeat_payload.
HeartbeatPayloadNull(seq) == [op |-> OpHeartbeat, d |-> None]
HeartbeatPayload(seq) == [op |-> OpHeartbeat, d |-> seq]

\* _handle_event's heartbeat_payload, the answer to a heartbeat request.
HeartbeatReplyAck(seq) == [op |-> OpHeartbeatAck, d |-> seq]
HeartbeatReplyPayload(seq) == [op |-> OpHeartbeat, d |-> seq]

\* ------------------------------------------------------------- state
VARIABLES
    \* GatewayClient
    running, websocket, session_id, resume_gateway_url, last_sequence,
    heartbeat_interval, heartbeat_task,
    \* the connect() coroutine's position, the connections opened so far,
    \* the heartbeat tasks created (one per HELLO)
    pc, conn, hb,
    \* BridgeConfig
    routes, retry_attempts,
    \* HTTPForwarder, EventRouter
    http_session, stats, fwd,
    \* DiscordBridge: its running flag and its shutdown_event
    bridge_running, shutdown_event,
    \* the position of a call of GatewayClient.disconnect
    disc,
    \* what the last step read from and wrote to the network, the event name
    \* it invoked the dispatch callback with, what handle_event's gather
    \* returned in it, the call of get_routes_for_event it made
    rcvd, sent, resp, called, gathered, lookup,
    \* observers: the session fields when the last connection cycle ended,
    \* and after the last INVALID SESSION frame
    closed, inv9,
    \* observers: the (route, endpoint) pairs of the events handed to
    \* handle_event so far, and how many of these events had a matching
    \* enabled route
    touched, matched

gwVars == <<running, websocket, session_id, resume_gateway_url, last_sequence,
            heartbeat_interval, heartbeat_task>>
cfgVars == <<routes, retry_attempts>>
rtVars == <<http_session, stats, fwd>>
supVars == <<bridge_running, shutdown_event>>
ioVars == <<rcvd, sent, resp, called, gathered, lookup>>
obsVars == <<closed, inv9>>
tallyVars == <<touched, matched>>
\* What the gateway's and the router's steps leave alone.
quietVars == <<supVars, tallyVars, disc>>
vars == <<gwVars, pc, conn, hb, cfgVars, rtVars, supVars, disc, ioVars,
          obsVars, tallyVars>>

NoResp == [task |-> 0]
\* No frame was read; "first" marks the first frame of a connection.
NoRcvd == [op |-> -1, first |-> FALSE]
NoSnap == [conn |-> 0]
\* handle_event's gather did not return in this step.
NoGather == [total |-> 0]
\* get_routes_for_event was not called in this step.
NoLookup == [called |-> FALSE]
ZeroStats == [events_received |-> 0, events_forwarded |-> 0,
              events_failed |-> 0, routes_processed |-> 0]

\* A step in which the dispatch callback is not invoked, no gather returns
\* and no route is looked up.
NoCall == called' = None /\ gathered' = NoGather /\ lookup' = NoLookup

\* A step that reads and writes nothing on the network.
NoIO == rcvd' = NoRcvd /\ sent' = NoFrame /\ resp' = NoResp /\ NoCall

\* The state after construction (DiscordBridge.__init__, GatewayClient.__init__,
\* EventRouter.__init__, HTTPForwarder.__init__), for a configuration with
\* routes in route_lists and http.retry_attempts in attempts.
InitWith(route_lists, attempts) ==
    /\ running = FALSE
    /\ websocket = "none"
    /\ session_id = None
    /\ resume_gateway_url = None
    /\ last_sequence = None
    /\ heartbeat_interval = None
    /\ heartbeat_task = 0
    /\ pc = "init"
    /\ conn = 0
    /\ hb = [c \in 1..MaxConns |-> "none"]
    /\ routes \in route_lists
    /\ retry_attempts \in attempts
    /\ http_session = "none"
    /\ stats = ZeroStats
    /\ fwd = <<>>
    /\ rcvd = NoRcvd
    /\ sent = NoFrame
    /\ resp = NoResp
    /\ called = None
    /\ gathered = NoGather
    /\ lookup = NoLookup
    /\ bridge_running = FALSE
    /\ shutdown_event = FALSE
    /\ disc = "idle"
    /\ closed = NoSnap
    /\ inv9 = NoSnap
    /\ touched = 0
    /\ matched = 0

\* One route with one endpoint and the default retry_attempts.
Init == InitWith({OneRoute}, {DefaultRetryAttempts})

\* Every configuration of RouteLists with every retry_attempts up to the bound.
InitForward == InitWith(RouteLists, 0..MaxRetryAttempts)

\* Every configuration of AllRouteLists.
InitLookup == InitWith(AllRouteLists, {DefaultRetryAttempts})

\* ------------------------------------------------------------- config.py
\* BridgeConfig.get_routes_for_event
GetRoutesIgnoringEnabled(rs, event_name) ==
    SelectSeq(rs, LAMBDA route : route.event_name = event_name)
GetRoutesForEvent(rs, event_name) ==
    SelectSeq(rs, LAMBDA route : route.event_name = event_name /\ route.enabled)

\* ------------------------------------------------------------- router.py
RECURSIVE EndpointsOf(_)
\* The (route, endpoint) pairs of handle_event's nested loop, in its order.
EndpointsOf(rs) ==
    IF rs = <<>> THEN <<>> ELSE Head(rs).endpoints \o EndpointsOf(Tail(rs))

\* response.status < 400
IsSuccessOnly2xx(status) == status < 300
IsSuccess(status) == status < 400

\* "Wait before retry (except on last attempt)"
SleepBeforeEveryRetry(attempt) == attempt < retry_attempts
SleepBeforeRetry(attempt) == attempt < retry_attempts - 1

\* One iteration of "for attempt in range(retry_attempts)": the POST is
\* issued, or the range is exhausted and forward_event returns False.
Attempt(task, a) ==
    IF a < retry_attempts
    THEN [task EXCEPT !.attempt = a, !.phase = "post", !.posts = @ + 1]
    ELSE [task EXCEPT !.phase = "done", !.result = "false"]

\* _forward_to_endpoint -> forward_event, up to its first suspension.
NewForward(endpoint) ==
    LET task == [endpoint |-> endpoint, attempt |-> 0, phase |-> "new",
                 posts |-> 0, fails |-> 0, sleeps |-> 0, raised |-> FALSE,
                 result |-> "pending"]
    IN  IF http_session # "open"
        THEN [task EXCEPT !.phase = "done", !.result = "false"]
        ELSE Attempt(task, 0)

\* What forward_event does with the outcome of the POST in flight
\* (posts, fails and sleeps count what the task did so far, raised tells
\* that one of the "except" clauses was entered).
AfterResponse(task, o) ==
    IF o.kind = "status" /\ IsSuccess(o.status)
    THEN [task EXCEPT !.phase = "done", !.result = "true"]
    ELSE LET failed == [task EXCEPT !.fails = @ + 1,
                                    !.raised = @ \/ o.kind # "status"]
         IN  IF SleepBeforeRetry(task.attempt)
             THEN [failed EXCEPT !.phase = "sleep", !.sleeps = @ + 1]
             ELSE Attempt(failed, task.attempt + 1)

\* handle_event's nested loop and asyncio.gather(*tasks): one forward task
\* per (route, endpoint) pair, each run up to its first suspension.
StartOnlyFirstTask(endpoints) ==
    [i \in 1..Len(endpoints) |->
        IF i = 1 THEN NewForward(endpoints[i])
        ELSE [NewForward(endpoints[i]) EXCEPT !.phase = "new", !.posts = 0]]
StartTasks(endpoints) ==
    [i \in 1..Len(endpoints) |-> NewForward(endpoints[i])]

RECURSIVE CountDone(_)
CountDone(ts) ==
    IF ts = <<>> THEN 0
    ELSE (IF Head(ts).phase = "done" THEN 1 ELSE 0) + CountDone(Tail(ts))

RECURSIVE CountTrue(_)
\* sum(1 for result in results if result is True)
CountTrue(ts) ==
    IF ts = <<>> THEN 0
    ELSE (IF Head(ts).result = "true" THEN 1 ELSE 0) + CountTrue(Tail(ts))

\* ------------------------------------------------------------- gateway.py
\* "if self.session_id and self.last_sequence is not None"
ShouldResumeSeqTruthy ==
    Truthy(session_id) /\ last_sequence # None /\ last_sequence[1] # 0
ShouldResume == Truthy(session_id) /\ last_sequence # None

\* _identify or _resume
AuthPayloadNone == NoFrame
AuthPayload ==
    IF ShouldResume THEN ResumePayload(session_id, last_sequence)
    ELSE IdentifyPayload

\* The session fields as the connection cycle ends.
AtClose ==
    [conn |-> conn, session_id |-> session_id', last_sequence |-> last_sequence',
     reconnect |-> rcvd'.op = OpReconnect /\ ~rcvd'.first]

CycleReturnsIgnoringRunning ==
    /\ websocket' = "closed"
    /\ pc' = "connecting"
    /\ closed' = AtClose

\* _connect_and_run returned: the "async with" closes the socket and
\* connect()'s "while self.running" decides.
CycleReturns ==
    /\ websocket' = "closed"
    /\ pc' = IF running THEN "connecting" ELSE "stopped"
    /\ closed' = AtClose

\* _connect_and_run raised: the "async with" closes the socket, connect()
\* logs and, if still running, sleeps 5 seconds.
CycleRaises ==
    /\ websocket' = "closed"
    /\ pc' = IF running THEN "backoff" ELSE "stopped"
    /\ closed' = AtClose

\* _event_loop's "while self.running" as the loop is entered.
EnterEventLoop ==
    IF running THEN pc' = "recv" /\ websocket' = websocket /\ closed' = closed
    ELSE CycleReturns

\* _event_loop's "while self.running" after a frame was handled.
ContinueEventLoop ==
    IF running THEN pc' = "recv" /\ websocket' = websocket /\ closed' = NoSnap
    ELSE CycleReturns

\* The observer of INVALID SESSION forgets a frame of an earlier connection
\* once a frame is read in a later connection's _event_loop.
KeepInv9 == inv9' = IF inv9.conn = conn THEN inv9 ELSE NoSnap

\* DiscordBridge.start: the router is started, then GatewayClient.connect
\* runs up to websockets.connect.
Start ==
    /\ pc = "init"
    /\ http_session' = "open"
    /\ bridge_running' = TRUE
    /\ running' = TRUE
    /\ pc' = "connecting"
    /\ NoIO
    /\ UNCHANGED <<websocket, session_id, resume_gateway_url, last_sequence,
                   heartbeat_interval, heartbeat_task, conn, hb, cfgVars,
                   stats, fwd, obsVars, shutdown_event, tallyVars, disc>>

\* websockets.connect succeeds; _receive_event waits for the first frame.
ConnectOk ==
    /\ pc = "connecting"
    /\ conn < MaxConns
    /\ websocket' = "open"
    /\ conn' = conn + 1
    /\ pc' = "hello"
    /\ NoIO
    /\ UNCHANGED quietVars
    /\ UNCHANGED <<running, session_id, resume_gateway_url, last_sequence,
                   heartbeat_interval, heartbeat_task, hb, cfgVars, rtVars,
                   obsVars>>

\* websockets.connect raises (refused, DNS, handshake).
ConnectFail ==
    /\ pc = "connecting"
    /\ pc' = IF running THEN "backoff" ELSE "stopped"
    /\ NoIO
    /\ UNCHANGED quietVars
    /\ UNCHANGED <<gwVars, conn, hb, cfgVars, rtVars, obsVars>>

\* connect(): asyncio.sleep(5) is over.
BackoffWake ==
    /\ pc = "backoff"
    /\ pc' = IF running THEN "connecting" ELSE "stopped"
    /\ NoIO
    /\ UNCHANGED quietVars
    /\ UNCHANGED <<gwVars, conn, hb, cfgVars, rtVars, obsVars>>

\* The platform closes the connection (or the transport fails).
ServerClose ==
    /\ websocket = "open"
    /\ websocket' = "closed"
    /\ NoIO
    /\ UNCHANGED quietVars
    /\ UNCHANGED <<running, session_id, resume_gateway_url, last_sequence,
                   heartbeat_interval, heartbeat_task, pc, conn, hb, cfgVars,
                   rtVars, obsVars>>

\* The first frame is HELLO: the heartbeat task is created, IDENTIFY or
\* RESUME is sent and _event_loop is entered.
RecvHello(ms) ==
    /\ pc = "hello"
    /\ websocket = "open"
    /\ heartbeat_interval' = Some(Seconds(ms))
    /\ hb' = [hb EXCEPT ![conn] = "sleeping"]
    /\ heartbeat_task' = conn
    /\ rcvd' = [op |-> OpHello, first |-> TRUE, interval |-> Some(ms)]
    /\ sent' = AuthPayload
    /\ resp' = NoResp
    /\ NoCall
    /\ UNCHANGED quietVars
    /\ UNCHANGED <<running, session_id, resume_gateway_url, last_sequence,
                   conn, cfgVars, rtVars, inv9>>
    /\ EnterEventLoop

\* The first frame is not HELLO, or is not a JSON object with "op".
RecvNotHello(op) ==
    /\ pc = "hello"
    /\ websocket = "open"
    /\ rcvd' = [op |-> op, first |-> TRUE]
    /\ sent' = NoFrame
    /\ resp' = NoResp
    /\ NoCall
    /\ UNCHANGED quietVars
    /\ UNCHANGED <<running, session_id, resume_gateway_url, last_sequence,
                   heartbeat_interval, heartbeat_task, conn, hb, cfgVars,
                   rtVars, inv9>>
    /\ CycleRaises

\* The first frame is HELLO without d.heartbeat_interval: the subscript
\* 'hello_event["d"]["heartbeat_interval"]' raises before the heartbeat task
\* is created and before anything is sent.
RecvHelloNoInterval ==
    /\ pc = "hello"
    /\ websocket = "open"
    /\ rcvd' = [op |-> OpHello, first |-> TRUE, interval |-> None]
    /\ sent' = NoFrame
    /\ resp' = NoResp
    /\ NoCall
    /\ UNCHANGED quietVars
    /\ UNCHANGED <<running, session_id, resume_gateway_url, last_sequence,
                   heartbeat_interval, heartbeat_task, conn, hb, cfgVars,
                   rtVars, inv9>>
    /\ CycleRaises

\* websocket.recv() raises ConnectionClosed while waiting for HELLO.
HelloClosed ==
    /\ pc = "hello"
    /\ websocket = "closed"
    /\ NoIO
    /\ UNCHANGED quietVars
    /\ UNCHANGED <<running, session_id, resume_gateway_url, last_sequence,
                   heartbeat_interval, heartbeat_task, conn, hb, cfgVars,
                   rtVars, inv9>>
    /\ CycleRaises

\* _event_loop: websocket.recv() raises ConnectionClosed; the loop breaks.
RecvClosed ==
    /\ pc = "recv"
    /\ websocket = "closed"
    /\ NoIO
    /\ KeepInv9
    /\ UNCHANGED quietVars
    /\ UNCHANGED <<running, session_id, resume_gateway_url, last_sequence,
                   heartbeat_interval, heartbeat_task, conn, hb, cfgVars,
                   rtVars>>
    /\ CycleReturns

\* EventRouter.handle_event up to its first suspension (the gather), called
\* from _handle_event with "await self.event_handler(event_type, event_data)".
\* Gives the router's next state and where the receive loop is next.
HandleEvent(event_type) ==
    LET found == GetRoutesForEvent(routes, event_type)
        endpoints == EndpointsOf(found)
        tasks == StartTasks(endpoints)
    IN  /\ stats' = [stats EXCEPT !.events_received = @ + 1]
        /\ http_session' = http_session
        /\ called' = Some(event_type)
        /\ gathered' = NoGather
        /\ touched' = touched + Len(endpoints)
        /\ matched' = matched + (IF found = <<>> THEN 0 ELSE 1)
        /\ lookup' = [called |-> TRUE, event_name |-> event_type,
                      result |-> found]
        /\ IF found = <<>> \/ tasks = <<>>
           THEN fwd' = fwd /\ ContinueEventLoop
           ELSE /\ fwd' = tasks
                /\ pc' = "handler"
                /\ websocket' = websocket
                /\ closed' = NoSnap

\* "if self.event_handler and event_type" (a handler is registered by
\* DiscordBridge.start before connect() is called).
CallsHandlerUnlessSpecial(t) ==
    Truthy(t) /\ t \notin {Some("READY"), Some("RESUMED")}
CallsHandler(t) == Truthy(t)

\* op 0, DISPATCH, up to the callback: last_sequence is assigned and READY
\* sets the session fields.
DispatchFrame(s, t, d, raised) ==
    /\ pc = "recv"
    /\ websocket = "open"
    /\ last_sequence' = s
    /\ IF t = Some("READY")
       THEN /\ session_id' = d.session_id
            /\ resume_gateway_url' = d.resume_gateway_url
       ELSE UNCHANGED <<session_id, resume_gateway_url>>
    /\ rcvd' = [op |-> OpDispatch, first |-> FALSE, s |-> s, t |-> t,
                d |-> d, raised |-> raised]
    /\ sent' = NoFrame
    /\ resp' = NoResp
    /\ KeepInv9
    /\ UNCHANGED <<running, heartbeat_interval, heartbeat_task, conn, hb,
                   cfgVars, supVars, disc>>

\* op 0, DISPATCH, with EventRouter.handle_event as the callback.
RecvDispatch(s, t, d) ==
    /\ CallsHandler(t) => stats.events_received < MaxEvents
    /\ DispatchFrame(s, t, d, FALSE)
    /\ IF CallsHandler(t)
       THEN HandleEvent(t[1])
       ELSE ContinueEventLoop /\ NoCall /\ UNCHANGED <<rtVars, tallyVars>>

\* "except Exception as e" around the callback: the error is logged and
\* _handle_event returns.
HandlerErrorEscapes == CycleRaises
HandlerErrorLogged == ContinueEventLoop

\* op 0, DISPATCH, with a callback that raises (on_event registers any
\* callable; handle_event itself lets no Exception out).
RecvDispatchHandlerRaises(s, t, d) ==
    /\ CallsHandler(t)
    /\ DispatchFrame(s, t, d, TRUE)
    /\ called' = Some(t[1])
    /\ gathered' = NoGather
    /\ lookup' = NoLookup
    /\ UNCHANGED <<rtVars, tallyVars>>
    /\ HandlerErrorLogged

\* op 1, HEARTBEAT REQUEST.
RecvHeartbeatRequest ==
    /\ pc = "recv"
    /\ websocket = "open"
    /\ rcvd' = [op |-> OpHeartbeat, first |-> FALSE]
    /\ sent' = HeartbeatReplyPayload(last_sequence)
    /\ resp' = NoResp
    /\ NoCall
    /\ KeepInv9
    /\ UNCHANGED quietVars
    /\ UNCHANGED <<running, session_id, resume_gateway_url, last_sequence,
                   heartbeat_interval, heartbeat_task, conn, hb, cfgVars,
                   rtVars>>
    /\ ContinueEventLoop

\* op 7, RECONNECT, assigns none of the session fields.
ReconnectClearsSession ==
    /\ session_id' = None
    /\ last_sequence' = None
    /\ resume_gateway_url' = resume_gateway_url
ReconnectSession ==
    UNCHANGED <<session_id, resume_gateway_url, last_sequence>>

\* op 7, RECONNECT: raise ConnectionClosed, which breaks _event_loop.
RecvReconnect ==
    /\ pc = "recv"
    /\ websocket = "open"
    /\ rcvd' = [op |-> OpReconnect, first |-> FALSE]
    /\ sent' = NoFrame
    /\ resp' = NoResp
    /\ NoCall
    /\ KeepInv9
    /\ ReconnectSession
    /\ UNCHANGED quietVars
    /\ UNCHANGED <<running, heartbeat_interval, heartbeat_task, conn, hb,
                   cfgVars, rtVars>>
    /\ CycleReturns

\* op 9, INVALID SESSION, up to asyncio.sleep(5).
RecvInvalidSession(d) ==
    /\ pc = "recv"
    /\ websocket = "open"
    /\ rcvd' = [op |-> OpInvalidSession, first |-> FALSE, d |-> d]
    /\ sent' = NoFrame
    /\ resp' = NoResp
    /\ NoCall
    /\ IF d = Some(TRUE)
       THEN UNCHANGED <<session_id, last_sequence>>
       ELSE session_id' = None /\ last_sequence' = None
    /\ pc' = "inv_sleep"
    /\ closed' = NoSnap
    /\ inv9' = [conn |-> conn, d |-> d, session_id |-> session_id',
                last_sequence |-> last_sequence']
    /\ UNCHANGED quietVars
    /\ UNCHANGED <<running, websocket, resume_gateway_url, heartbeat_interval,
                   heartbeat_task, conn, hb, cfgVars, rtVars>>

\* op 9: asyncio.sleep(5) is over; _handle_event returns to _event_loop.
InvalidSessionWake ==
    /\ pc = "inv_sleep"
    /\ NoIO
    /\ UNCHANGED quietVars
    /\ UNCHANGED <<running, session_id, resume_gateway_url, last_sequence,
                   heartbeat_interval, heartbeat_task, conn, hb, cfgVars,
                   rtVars, inv9>>
    /\ ContinueEventLoop

\* op 11 (HEARTBEAT ACK, logged), and the opcodes _handle_event has no
\* branch for (a later HELLO, an unknown opcode).
RecvIgnored(op) ==
    /\ pc = "recv"
    /\ websocket = "open"
    /\ rcvd' = [op |-> op, first |-> FALSE]
    /\ sent' = NoFrame
    /\ resp' = NoResp
    /\ NoCall
    /\ KeepInv9
    /\ UNCHANGED quietVars
    /\ UNCHANGED <<running, session_id, resume_gateway_url, last_sequence,
                   heartbeat_interval, heartbeat_task, conn, hb, cfgVars,
                   rtVars>>
    /\ ContinueEventLoop

MalformedFrame == [op |-> -2, first |-> FALSE]

\* A frame that is not JSON: json.loads raises, _event_loop's
\* "except Exception" logs and the loop goes on.
RecvMalformed ==
    /\ pc = "recv"
    /\ websocket = "open"
    /\ rcvd' = MalformedFrame
    /\ sent' = NoFrame
    /\ resp' = NoResp
    /\ NoCall
    /\ KeepInv9
    /\ UNCHANGED quietVars
    /\ UNCHANGED <<running, session_id, resume_gateway_url, last_sequence,
                   heartbeat_interval, heartbeat_task, conn, hb, cfgVars,
                   rtVars>>
    /\ ContinueEventLoop

\* forward_event: the POST of task i ends with outcome o.
ForwardResponse(i, o) ==
    /\ i \in 1..Len(fwd)
    /\ fwd[i].phase = "post"
    /\ fwd' = [fwd EXCEPT ![i] = AfterResponse(fwd[i], o)]
    /\ resp' = [task |-> i, status |-> o.status]
    /\ NoCall
    /\ rcvd' = NoRcvd
    /\ sent' = NoFrame
    /\ UNCHANGED quietVars
    /\ UNCHANGED <<gwVars, pc, conn, hb, cfgVars, http_session, stats,
                   obsVars>>

\* forward_event: asyncio.sleep(retry_delay) of task i is over.
ForwardRetryWake(i) ==
    /\ i \in 1..Len(fwd)
    /\ fwd[i].phase = "sleep"
    /\ fwd' = [fwd EXCEPT ![i] = Attempt(fwd[i], fwd[i].attempt + 1)]
    /\ NoIO
    /\ UNCHANGED quietVars
    /\ UNCHANGED <<gwVars, pc, conn, hb, cfgVars, http_session, stats,
                   obsVars>>

\* handle_event: asyncio.gather returns, the counters are updated and
\* _handle_event returns to _event_loop.
GatherDone ==
    /\ pc = "handler"
    /\ \A i \in 1..Len(fwd) : fwd[i].phase = "done"
    /\ LET successes == CountTrue(fwd)
           failures == Len(fwd) - successes
       IN  /\ stats' = [stats EXCEPT !.events_forwarded = @ + successes,
                                     !.events_failed = @ + failures,
                                     !.routes_processed = @ + 1]
           /\ gathered' = [total |-> Len(fwd), failures |-> failures,
                           results |-> [i \in 1..Len(fwd) |-> fwd[i].result],
                           raised |-> [i \in 1..Len(fwd) |-> fwd[i].raised],
                           failed_before |-> stats.events_failed]
    /\ fwd' = <<>>
    /\ rcvd' = NoRcvd
    /\ sent' = NoFrame
    /\ resp' = NoResp
    /\ called' = None
    /\ lookup' = NoLookup
    /\ UNCHANGED quietVars
    /\ UNCHANGED <<running, session_id, resume_gateway_url, last_sequence,
                   heartbeat_interval, heartbeat_task, conn, hb, cfgVars,
                   http_session, inv9>>
    /\ ContinueEventLoop

\* _heartbeat_loop of the task created on connection c: a sleep (the jitter
\* or the interval) is over; "while self.running", then the send.
HeartbeatWake(c) ==
    /\ c \in 1..MaxConns
    /\ hb[c] = "sleeping"
    /\ IF running /\ websocket = "open"
       THEN sent' = HeartbeatPayload(last_sequence) /\ hb' = hb
       ELSE sent' = NoFrame /\ hb' = [hb EXCEPT ![c] = "ended"]
    /\ rcvd' = NoRcvd
    /\ resp' = NoResp
    /\ NoCall
    /\ UNCHANGED quietVars
    /\ UNCHANGED <<gwVars, pc, conn, cfgVars, rtVars, obsVars>>

\* DiscordBridge.shutdown, the task the handler of SIGINT and SIGTERM creates
\* (a second signal changes nothing).  It runs at a suspension of start().
\* It assigns DiscordBridge.running and sets shutdown_event, which no
\* coroutine waits for.  DiscordBridge.cleanup (GatewayClient.disconnect,
\* then EventRouter.stop) runs in the "finally" of start(), that is once
\* connect() has returned (pc = "stopped"); connect() returns when
\* GatewayClient.running is False, and only disconnect() assigns that.
Shutdown ==
    /\ pc # "init"
    /\ ~shutdown_event
    /\ bridge_running' = FALSE
    /\ shutdown_event' = TRUE
    /\ NoIO
    /\ UNCHANGED <<gwVars, pc, conn, hb, cfgVars, rtVars, obsVars, tallyVars, disc>>

\* GatewayClient.disconnect, called while connect() runs, up to its first
\* suspension: running is cleared; a heartbeat_task that has not finished is
\* cancelled and awaited, a finished one (or None) is passed over.
DisconnectStart ==
    /\ pc # "init"
    /\ disc = "idle"
    /\ running' = FALSE
    /\ IF heartbeat_task # 0 /\ hb[heartbeat_task] = "sleeping"
       THEN /\ hb' = [hb EXCEPT ![heartbeat_task] = "cancel_sent"]
            /\ disc' = "cancelling"
       ELSE /\ hb' = hb
            /\ disc' = "closing"
    /\ NoIO
    /\ UNCHANGED <<websocket, session_id, resume_gateway_url, last_sequence,
                   heartbeat_interval, heartbeat_task, pc, conn, cfgVars,
                   rtVars, supVars, obsVars, tallyVars>>

\* The cancelled heartbeat task runs: CancelledError is raised at its sleep.
\* In the interval sleep the loop's "except asyncio.CancelledError" breaks
\* and the task returns; in the jitter sleep, outside the "try", the error
\* leaves the task.  disconnect()'s "await self.heartbeat_task" is inside
\* "except asyncio.CancelledError: pass", so disconnect goes on to the
\* socket either way.
HeartbeatCancelled(c) ==
    /\ c \in 1..MaxConns
    /\ hb[c] = "cancel_sent"
    /\ hb' = [hb EXCEPT ![c] = "cancelled"]
    /\ disc' = "closing"
    /\ NoIO
    /\ UNCHANGED <<gwVars, pc, conn, cfgVars, rtVars, supVars, obsVars,
                   tallyVars>>

\* disconnect(): "if self.websocket: await self.websocket.close()".
DisconnectClose ==
    /\ disc = "closing"
    /\ websocket' = IF websocket = "open" THEN "closed" ELSE websocket
    /\ disc' = "done"
    /\ NoIO
    /\ UNCHANGED <<running, session_id, resume_gateway_url, last_sequence,
                   heartbeat_interval, heartbeat_task, pc, conn, hb, cfgVars,
                   rtVars, supVars, obsVars, tallyVars>>

\* EventRouter.reset_stats, called by any holder of the router at a
\* suspension of the running coroutines: self.stats is replaced by a dict of
\* zeros, which a suspended handle_event updates when its gather returns.
\* The calls are capped by the number of routed events handed over so far.
ResetStats ==
    /\ matched <= MaxEvents
    /\ stats' = ZeroStats
    /\ NoIO
    /\ UNCHANGED <<gwVars, pc, conn, hb, cfgVars, http_session, fwd, supVars,
                   disc, obsVars, tallyVars>>

\* A call of BridgeConfig.get_routes_for_event on the configuration.
Lookup(event_name) ==
    /\ lookup' = [called |-> TRUE, event_name |-> event_name,
                  result |-> GetRoutesForEvent(routes, event_name)]
    /\ rcvd' = NoRcvd
    /\ sent' = NoFrame
    /\ resp' = NoResp
    /\ called' = None
    /\ gathered' = NoGather
    /\ UNCHANGED <<gwVars, pc, conn, hb, cfgVars, rtVars, supVars, obsVars,
                   tallyVars, disc>>

Next ==
    \/ Start
    \/ ConnectOk
    \/ ConnectFail
    \/ BackoffWake
    \/ ServerClose
    \/ \E ms \in HelloIntervals : RecvHello(ms)
    \/ \E op \in {OpDispatch, OpHeartbeat, OpReconnect, OpInvalidSession,
                  OpHeartbeatAck, OpUnknown} : RecvNotHello(op)
    \/ RecvHelloNoInterval
    \/ HelloClosed
    \/ RecvClosed
    \/ \E s \in OptSeqs, t \in EventTypes :
           \E d \in (IF t = Some("READY") THEN ReadyPayloads ELSE {EmptyData}) :
               RecvDispatch(s, t, d)
    \/ RecvHeartbeatRequest
    \/ RecvReconnect
    \/ \E d \in InvalidSessionData : RecvInvalidSession(d)
    \/ InvalidSessionWake
    \/ \E op \in {OpHello, OpHeartbeatAck, OpUnknown} : RecvIgnored(op)
    \/ RecvMalformed
    \/ \E i \in 1..Len(fwd), o \in Outcomes : ForwardResponse(i, o)
    \/ \E i \in 1..Len(fwd) : ForwardRetryWake(i)
    \/ GatherDone
    \/ \E c \in 1..MaxConns : HeartbeatWake(c)

Spec == Init /\ [][Next]_vars

\* The router and the forwarder under every configuration, on one connection
\* the platform keeps open and sends only HELLO and dispatches on.
NextForward ==
    \/ Start
    \/ ConnectOk
    \/ \E ms \in HelloIntervals : RecvHello(ms)
    \/ \E t \in EventTypes :
           \E d \in (IF t = Some("READY") THEN ReadyPayloads ELSE {EmptyData}) :
               RecvDispatch(Some(0), t, d)
    \/ \E i \in 1..Len(fwd), o \in Outcomes : ForwardResponse(i, o)
    \/ \E i \in 1..Len(fwd) : ForwardRetryWake(i)
    \/ GatherDone

SpecForward == InitForward /\ [][NextForward]_vars

\* The session with a dispatch callback that may raise.
NextAnyHandler ==
    \/ Start
    \/ ConnectOk
    \/ ServerClose
    \/ \E ms \in HelloIntervals : RecvHello(ms)
    \/ RecvClosed
    \/ \E s \in OptSeqs, t \in EventTypes :
           \E d \in (IF t = Some("READY") THEN ReadyPayloads ELSE {EmptyData}) :
               \/ RecvDispatch(s, t, d)
               \/ RecvDispatchHandlerRaises(s, t, d)
    \/ RecvHeartbeatRequest
    \/ \E i \in 1..Len(fwd), o \in Outcomes : ForwardResponse(i, o)
    \/ \E i \in 1..Len(fwd) : ForwardRetryWake(i)
    \/ GatherDone

SpecAnyHandler == Init /\ [][NextAnyHandler]_vars

\* The forwarding of dispatched events, with calls of reset_stats.
NextReset ==
    \/ Start
    \/ ConnectOk
    \/ \E ms \in HelloIntervals : RecvHello(ms)
    \/ \E t \in EventTypes :
           \E d \in (IF t = Some("READY") THEN ReadyPayloads ELSE {EmptyData}) :
               RecvDispatch(Some(0), t, d)
    \/ \E i \in 1..Len(fwd), o \in Outcomes : ForwardResponse(i, o)
    \/ \E i \in 1..Len(fwd) : ForwardRetryWake(i)
    \/ GatherDone
    \/ ResetStats

SpecReset == InitForward /\ [][NextReset]_vars

\* The supervisor's shutdown, with a platform that sends no dispatches.
NextShutdown ==
    \/ Start
    \/ ConnectOk
    \/ ConnectFail
    \/ BackoffWake
    \/ ServerClose
    \/ \E ms \in HelloIntervals : RecvHello(ms)
    \/ HelloClosed
    \/ RecvClosed
    \/ RecvHeartbeatRequest
    \/ RecvReconnect
    \/ RecvIgnored(OpHeartbeatAck)
    \/ \E c \in 1..MaxConns : HeartbeatWake(c)
    \/ Shutdown

\* Every step that can be taken is eventually taken: the event loop runs
\* every task that is ready.
SpecShutdown == Init /\ [][NextShutdown]_vars /\ WF_vars(NextShutdown)

\* A caller's disconnect() while connect() runs, with a platform that sends
\* no dispatches.
NextDisconnect ==
    \/ Start
    \/ ConnectOk
    \/ ConnectFail
    \/ BackoffWake
    \/ ServerClose
    \/ \E ms \in HelloIntervals : RecvHello(ms)
    \/ \E op \in {OpDispatch, OpUnknown} : RecvNotHello(op)
    \/ HelloClosed
    \/ RecvClosed
    \/ RecvReconnect
    \/ \E d \in InvalidSessionData : RecvInvalidSession(d)
    \/ InvalidSessionWake
    \/ \E c \in 1..MaxConns : HeartbeatWake(c)
    \/ DisconnectStart
    \/ \E c \in 1..MaxConns : HeartbeatCancelled(c)
    \/ DisconnectClose

\* Every step that can be taken is eventually taken: the event loop runs
\* every task that is ready, a sleep ends, and the platform answers a
\* connection that was opened (with a frame or by closing it).
SpecDisconnect == Init /\ [][NextDisconnect]_vars /\ WF_vars(NextDisconnect)

\* The route lookup alone, under every configuration of AllRouteLists.
NextLookup == \E event_name \in EventNames : Lookup(event_name)

SpecLookup == InitLookup /\ [][NextLookup]_vars

\* ------------------------------------------------------------- claims
AuthSent == sent.op \in {OpIdentify, OpResume}

C2_Claim ==
    /\ (rcvd.op = OpInvalidSession /\ ~rcvd.first /\ rcvd.d = Some(FALSE)) =>
           (session_id = None /\ last_sequence = None)
    /\ (AuthSent /\ inv9.conn > 0 /\ inv9.conn = conn - 1 /\ inv9.d = Some(FALSE)) =>
           sent.op = OpIdentify

\* C3, as stated (with "set" read as the resume condition reads it):
\* INVALID SESSION with d=true while session_id and last_sequence are set is
\* followed, on the next connection cycle, by RESUME carrying exactly the
\* session_id and last_sequence the session had at that frame.
C3_Claim ==
    ( /\ AuthSent
      /\ inv9.conn > 0
      /\ inv9.conn = conn - 1
      /\ inv9.d = Some(TRUE)
      /\ Truthy(inv9.session_id)
      /\ inv9.last_sequence # None ) =>
        /\ sent.op = OpResume
        /\ sent.d.session_id = inv9.session_id
        /\ sent.d.seq = inv9.last_sequence

\* C4, as stated: when the sleep that follows an INVALID SESSION frame is
\* over, the session itself has closed the connection and a new connection
\* cycle starts (no close or further frame from the platform is needed).
C4_Claim ==
    [][(pc = "inv_sleep" /\ pc' # "inv_sleep") =>
           (websocket' = "closed" /\ pc' \in {"connecting", "backoff"})]_vars

\* C5, as stated, on the first connection (where a last_sequence that is set
\* was set by a dispatch of this connection): a DISPATCH frame never lowers
\* last_sequence and never resets it to null.
C5_Claim ==
    [][(conn = 1 /\ rcvd'.op = OpDispatch /\ ~rcvd'.first /\ last_sequence # None) =>
           (last_sequence' # None /\ last_sequence'[1] >= last_sequence[1])]_vars

\* C6: every outbound heartbeat frame (op=1), from the heartbeat task or in
\* answer to a heartbeat request, has d equal to last_sequence as it is sent.
C6_HeartbeatCarriesSequence ==
    sent.op = OpHeartbeat => sent.d = last_sequence

\* C6: the heartbeat task sent a heartbeat after a dispatch set last_sequence.
C6_Witness ==
    /\ sent.op = OpHeartbeat
    /\ rcvd = NoRcvd
    /\ last_sequence # None

\* C7: in the step in which a heartbeat request (op=1) is read in the event
\* loop (RUNNING), the heartbeat {op:1, d:last_sequence} is sent, the connection stays
\* open and the loop is back at its receive: no other frame was read between.
C7_HeartbeatRequestAnswered ==
    (rcvd.op = OpHeartbeat /\ ~rcvd.first) =>
        /\ sent.op = OpHeartbeat
        /\ sent.d = last_sequence
        /\ pc = "recv"

\* C7: a heartbeat request was answered with a sequence number.
C7_Witness ==
    /\ rcvd.op = OpHeartbeat
    /\ ~rcvd.first
    /\ sent.op = OpHeartbeat
    /\ last_sequence = Some(MaxSeq)

\* C8, as stated: while handle_event waits on its forwards, the receive loop
\* can still read the next frame of the open connection, such as a heartbeat
\* request.
C8_Claim ==
    (pc = "handler" /\ running /\ websocket = "open") =>
        ENABLED RecvHeartbeatRequest

\* C9: a forward whose every POST failed (status >= 400, transport error or
\* timeout) ends only after exactly retry_attempts POSTs, with result false;
\* there is one retry_delay sleep before every POST but the first, and none
\* after the last.
C9_RetryBudget ==
    \A i \in 1..Len(fwd) :
        LET task == fwd[i]
        IN  /\ task.fails <= task.posts
            /\ (task.phase = "done" /\ task.fails = task.posts) =>
                   /\ task.result = "false"
                   /\ task.posts = retry_attempts
                   /\ task.sleeps = IF retry_attempts = 0 THEN 0
                                    ELSE retry_attempts - 1
            /\ task.phase = "post" => task.sleeps = task.posts - 1
            /\ task.phase = "sleep" =>
                   (task.sleeps = task.posts /\ task.posts < retry_attempts)

\* C9: a forward failed retry_attempts = 3 times, with two sleeps.
C9_Witness ==
    \E i \in 1..Len(fwd) :
        /\ fwd[i].phase = "done"
        /\ fwd[i].result = "false"
        /\ fwd[i].posts = DefaultRetryAttempts
        /\ fwd[i].sleeps = DefaultRetryAttempts - 1

\* C10: the attempt whose response status is < 400 ends the forward with
\* result true; a forward that returned true made exactly one POST more than
\* it had failures (k-1 failures, then success: k POSTs, k <= retry_attempts).
C10_ShortCircuit ==
    /\ (resp.task > 0 /\ resp.status > 0 /\ resp.status < 400) =>
           /\ fwd[resp.task].phase = "done"
           /\ fwd[resp.task].result = "true"
    /\ \A i \in 1..Len(fwd) :
           fwd[i].result = "true" =>
               /\ fwd[i].phase = "done"
               /\ fwd[i].posts = fwd[i].fails + 1
               /\ fwd[i].posts <= retry_attempts

\* C10: a forward failed twice and succeeded at its third POST.
C10_Witness ==
    \E i \in 1..Len(fwd) :
        /\ fwd[i].result = "true"
        /\ fwd[i].fails = 2
        /\ fwd[i].posts = 3

\* C11, as stated: once the events handed to handle_event are processed (no
\* gather is pending), events_forwarded + events_failed equals the number of
\* (route, endpoint) pairs of these events, and routes_processed equals the
\* number of these events that had at least one matching enabled route.
C11_Claim ==
    pc # "handler" =>
        /\ stats.events_forwarded + stats.events_failed = touched
        /\ stats.routes_processed = matched

\* C12: while a forward task of an event waits for the answer to its POST or
\* sleeps before a retry, every forward task of that event was started and
\* has issued its POST, and each task that waits for an answer can receive
\* it while the other still waits.
C12_FanOutIndependence ==
    \A i \in 1..Len(fwd) :
        fwd[i].phase \in {"post", "sleep"} =>
            \A j \in 1..Len(fwd) :
                /\ fwd[j].phase # "new"
                /\ fwd[j].posts >= 1
                /\ fwd[j].phase = "post" =>
                       \A o \in Outcomes : ENABLED ForwardResponse(j, o)

\* C12: the first endpoint has not answered its first POST, the forward to
\* the second endpoint has returned true.
C12_Witness ==
    /\ Len(fwd) = 2
    /\ fwd[1].phase = "post"
    /\ fwd[1].posts = 1
    /\ fwd[2].phase = "done"
    /\ fwd[2].result = "true"

\* C13: a POST that raises (a transport error, a timeout, any exception)
\* leaves its forward task running or ended with the result false; when the
\* gather of handle_event returns, every result is true or false,
\* events_failed has grown by exactly the number of false results, and the
\* session is back at the receive of its event loop.
C13_ForwardErrorsContained ==
    /\ (resp.task > 0 /\ resp.status = 0) =>
           /\ fwd[resp.task].phase \in {"post", "sleep", "done"}
           /\ fwd[resp.task].phase = "done" => fwd[resp.task].result = "false"
           /\ pc = "handler"
    /\ gathered.total > 0 =>
           /\ pc = "recv"
           /\ running
           /\ \A i \in 1..gathered.total : gathered.results[i] \in {"true", "false"}
           /\ gathered.failures =
                  Cardinality({ i \in 1..gathered.total : gathered.results[i] = "false" })
           /\ stats.events_failed = gathered.failed_before + gathered.failures

\* C13: a gather returned with a task that raised and ended false.
C13_Witness ==
    /\ gathered.total > 0
    /\ \E i \in 1..gathered.total :
           gathered.raised[i] /\ gathered.results[i] = "false"
    /\ stats.events_failed > 0

\* C14: in the step in which a DISPATCH frame is read and the dispatch
\* callback raises, the connection stays open, last_sequence is the "s" of
\* that frame, session_id and resume_gateway_url are those of that frame if
\* it is READY and are unchanged otherwise, and the event loop is back at
\* its receive on the same connection.
C14_HandlerErrorSwallowed ==
    [][(rcvd'.op = OpDispatch /\ ~rcvd'.first /\ rcvd'.raised) =>
           /\ websocket = "open"
           /\ websocket' = "open"
           /\ conn' = conn
           /\ running'
           /\ pc' = "recv"
           /\ last_sequence' = rcvd'.s
           /\ session_id' = IF rcvd'.t = Some("READY")
                            THEN rcvd'.d.session_id ELSE session_id
           /\ resume_gateway_url' = IF rcvd'.t = Some("READY")
                                    THEN rcvd'.d.resume_gateway_url
                                    ELSE resume_gateway_url]_vars

\* C14: the callback raised on a READY frame; the session it announced is
\* kept and the loop is at its receive.
C14_Witness ==
    /\ rcvd.op = OpDispatch
    /\ ~rcvd.first
    /\ rcvd.raised
    /\ rcvd.t = Some("READY")
    /\ session_id = Some("s1")
    /\ last_sequence = Some(MaxSeq)
    /\ websocket = "open"
    /\ pc = "recv"

\* C15, as stated: once shutdown is requested, eventually the session's
\* running flag is false, the WebSocket is closed, no heartbeat task is
\* alive, the connect loop has exited and the router's HTTP session is closed.
C15_Claim ==
    shutdown_event ~>
        ( /\ ~running
          /\ websocket = "closed"
          /\ \A c \in 1..MaxConns : hb[c] # "sleeping"
          /\ pc = "stopped"
          /\ http_session = "closed" )

\* C16: the dispatch callback is invoked in the very step in which a DISPATCH
\* frame with an event name (READY and RESUMED included) is read from the
\* event loop, once and with that name, and in no other step; so the
\* callbacks of one connection are invoked in the order the frames were
\* received.
C16_DeliveryOrder ==
    called = IF rcvd.op = OpDispatch /\ ~rcvd.first /\ Truthy(rcvd.t)
             THEN rcvd.t
             ELSE None

\* C16: after an earlier event went through the router, a RESUMED frame is
\* read and handed to the callback.
C16_Witness ==
    /\ rcvd.op = OpDispatch
    /\ ~rcvd.first
    /\ rcvd.t = Some("RESUMED")
    /\ called = Some("RESUMED")
    /\ stats.events_received = MaxEvents
    /\ stats.routes_processed = MaxEvents

\* C17: a call get_routes_for_event(e) on a configuration returns exactly the
\* routes whose event_name is e and whose enabled is true, in the order of
\* the configuration: there is an increasing map from the positions of the
\* result onto the positions of these routes.
C17_RouteLookup ==
    lookup.called =>
        LET r == lookup.result
            idx == { i \in 1..Len(routes) :
                        routes[i].event_name = lookup.event_name /\ routes[i].enabled }
        IN  /\ Len(r) = Cardinality(idx)
            /\ \E f \in [1..Len(r) -> 1..Len(routes)] :
                   /\ \A k \in 1..Len(r) : f[k] \in idx /\ r[k] = routes[f[k]]
                   /\ \A k, l \in 1..Len(r) : k < l => f[k] < f[l]

\* C17: of two routes of the event looked up, the first is disabled and only
\* the second is returned.
C17_Witness ==
    /\ lookup.called
    /\ Len(routes) = 2
    /\ routes[1].event_name = lookup.event_name
    /\ routes[2].event_name = lookup.event_name
    /\ ~routes[1].enabled
    /\ routes[1].endpoints # routes[2].endpoints
    /\ lookup.result = << routes[2] >>

C19_Claim ==
    (~rcvd.first /\ rcvd.op \in {OpHello, OpUnknown, MalformedFrame.op}) =>
        (websocket = "closed" /\ pc \in {"connecting", "backoff"})

\* C20, as stated: at most one heartbeat task is alive, and a heartbeat task
\* that is alive while a connection is open was created at the HELLO of
\* that connection.
C20_Claim ==
    /\ Cardinality({ c \in 1..MaxConns : hb[c] = "sleeping" }) <= 1
    /\ \A c \in 1..MaxConns :
           (hb[c] = "sleeping" /\ websocket = "open") => c = conn

\* C21, as stated: a step that reads no frame in the event loop (a close,
\* the backoff, the opening of a connection, its HELLO) leaves session_id,
\* last_sequence and resume_gateway_url unchanged, and a step that makes
\* session_id or last_sequence null reads an INVALID SESSION frame that is
\* not resumable.
C21_Claim ==
    [][ /\ (rcvd'.op = NoRcvd.op \/ rcvd'.first) =>
               /\ session_id' = session_id
               /\ last_sequence' = last_sequence
               /\ resume_gateway_url' = resume_gateway_url
        /\ ( \/ (session_id # None /\ session_id' = None)
             \/ (last_sequence # None /\ last_sequence' = None) ) =>
               /\ rcvd'.op = OpInvalidSession
               /\ ~rcvd'.first
               /\ rcvd'.d # Some(TRUE) ]_vars

\* C22, as stated: while running, a connection cycle that ends because of a
\* transport failure (a failed connect, a close of the socket, a handshake
\* error) is followed by the backoff sleep: the connect loop never goes from
\* a cycle to the opening of the next connection without the backoff in
\* between.  The cycle ended by a RECONNECT frame is left aside, since no
\* transport failure ends it.
C22_Claim ==
    [][ ( /\ running'
          /\ pc \in {"connecting", "hello", "recv"}
          /\ pc' \in {"connecting", "backoff"}
          /\ pc' # pc
          /\ rcvd'.op # OpReconnect ) => pc' = "backoff" ]_vars

\* C23: once disconnect() has cleared running, the connect loop begins no
\* further iteration (it never goes back to opening a connection), no
\* heartbeat is sent, and a connect() that has returned stays returned and
\* opens nothing; a disconnect() that cancelled the heartbeat task goes on
\* to its end (the cancellation is not raised to its caller); and after
\* disconnect() has finished, connect() returns, whatever phase it was in.
C23_StopTerminates ==
    /\ [][ disc # "idle" =>
              /\ pc' = "connecting" => pc = "connecting"
              /\ sent'.op # OpHeartbeat
              /\ pc = "stopped" => (pc' = "stopped" /\ conn' = conn) ]_vars
    /\ (disc = "cancelling") ~> (disc = "done")
    /\ (disc = "done") ~> (pc = "stopped")

C23_Witness ==
    /\ disc = "done"
    /\ pc = "stopped"
    /\ websocket = "closed"
    /\ heartbeat_task > 0
    /\ hb[heartbeat_task] = "cancelled"

\* C24, as stated: a failed heartbeat send ends the connection cycle.  Once
\* the heartbeat task of the current connection is dead while running, the
\* connect loop does nothing in RUNNING (receiving, awaiting the dispatch
\* callback, the invalid-session sleep) but leave it: it handles no frame,
\* forwards nothing and does not go back to receiving.
C24_Claim ==
    [][ ( /\ running
          /\ conn > 0
          /\ hb[conn] = "ended"
          /\ pc \in {"recv", "handler", "inv_sleep"}
          /\ (pc' # pc \/ fwd' # fwd \/ stats' # stats) ) =>
            pc' \notin {"recv", "handler", "inv_sleep"} ]_vars

\* What C25 says of every connection whatever its first frame: an
\* authentication frame is sent only by the step that reads the connection's
\* first frame, a HELLO, and leaves the wait for HELLO; that wait is entered
\* only by opening a new connection; the event loop, where DISPATCH frames
\* are handled, is entered from outside only by a step that sends the
\* authentication frame; and a first frame that is not HELLO sends nothing,
\* closes the connection and takes connect()'s error branch.
C25_AuthShape ==
    /\ AuthSent' => (pc = "hello" /\ pc' # "hello" /\ rcvd'.first
                     /\ rcvd'.op = OpHello)
    /\ (pc' = "hello" /\ pc # "hello") => (pc = "connecting" /\ conn' = conn + 1)
    /\ (pc' = "recv" /\ pc \notin {"recv", "handler", "inv_sleep"}) => AuthSent'
    /\ (rcvd'.op = OpDispatch /\ ~rcvd'.first) => pc = "recv"
    /\ (rcvd'.first /\ rcvd'.op # OpHello) =>
           (sent' = NoFrame /\ websocket' = "closed" /\ pc' = "backoff")

\* C25, as stated: the above, and every connection whose first frame is
\* HELLO sends its authentication frame.
C25_Claim ==
    [][ /\ C25_AuthShape
        /\ (rcvd'.first /\ rcvd'.op = OpHello) => AuthSent' ]_vars

\* C25, amended: the above, and a connection whose first frame is a HELLO
\* carrying heartbeat_interval sends its authentication frame, while a HELLO
\* without heartbeat_interval sends nothing, closes the connection and takes
\* connect()'s error branch.
C25_AuthOnce ==
    [][ /\ C25_AuthShape
        /\ (rcvd'.first /\ rcvd'.op = OpHello) =>
               IF rcvd'.interval # None THEN AuthSent'
               ELSE sent' = NoFrame /\ websocket' = "closed" /\ pc' = "backoff" ]_vars

C25_Witness ==
    /\ rcvd.op = OpHello
    /\ rcvd.first
    /\ rcvd.interval # None
    /\ sent.op = OpResume
    /\ conn = MaxConns
    /\ pc = "recv"

\* C26, as stated: in every reachable state, calls of reset_stats during a
\* suspended handle_event included, routes_processed is at most
\* events_received, and events_forwarded + events_failed is 0 whenever
\* routes_processed is 0.
C26_Claim ==
    /\ stats.routes_processed <= stats.events_received
    /\ stats.routes_processed = 0 =>
           stats.events_forwarded + stats.events_failed = 0

====
